---------------------------- MODULE Spec2Model ----------------------------
(***************************************************************************)
(* Model of the anchor-assignment nearest search, the pointer-picking ray  *)
(* search and the worker offload channel of galactic_portfolio             *)
(* (src/script.js, src/anchorWorker.js).                                   *)
(*                                                                         *)
(* Numbers.  Coordinates are small integers, so every product and sum the  *)
(* searches compute is exact; rounding of Float32/Float64 arithmetic is    *)
(* outside the model.  A value read from a typed array or handed around as *)
(* a JS value that may be `undefined` is a sequence: <<n>> is the number n *)
(* and << >> is undefined.  A DOM string is a sequence of one-character    *)
(* strings.                                                                *)
(*                                                                         *)
(* Buffers.  A Float32Array of N points is the flat sequence of its 3N     *)
(* numbers; JS index k is TLA+ index k + 1.                                *)
(***************************************************************************)
EXTENDS Integers, Sequences, FiniteSets, TLC

\* ------------------------------------------------------------------ bounds
\* Largest number of points in a cloud.
MaxN == 10
\* Largest number of points of a cloud that differ from BasePoint.
MaxSpecial == 2
\* Largest stride handed to the worker's search as data.step.
MaxStep == 3
\* Largest number of points of a cloud in the progress check.
LiveMaxN == 2
\* The source divides the point count by 100000 to get the stride
\* (script.js:229, :286); the model's clouds hold at most MaxN points, so the
\* divisor is scaled down with them.
StepDivisor == 4

\* ------------------------------------------------------- program constants
\* step * 4: the radius factor of the target search's refinement window.
RefineFactor == 4

Max(a, b) == IF a > b THEN a ELSE b
Min(a, b) == IF a < b THEN a ELSE b

\* ------------------------------------------------------------- JS values
Undefined == << >>
Num(n) == <<n>>
Val(v) == v[1]

\* A typed array element read: array[k], undefined when k is out of range.
Elem(buf, k) == IF (k + 1) \in DOMAIN buf THEN Num(buf[k + 1]) ELSE Undefined

Vec(a, b, c) == [x |-> a, y |-> b, z |-> c]

\* ------------------------------------------------------------ input sets
BasePoint == Vec(0, 0, 0)
Palette == {Vec(10, 0, 0), Vec(5, 5, 0), Vec(1, 1, 1)}
Targets == {Vec(9, 1, 0), Vec(1, 4, 0)}

\* The flat buffer of the n points pt[0], ..., pt[n-1].
Flat(n, pt) ==
    [k \in 1..(3 * n) |->
        LET p == pt[(k - 1) \div 3]
            c == (k - 1) % 3
        IN  IF c = 0 THEN p.x ELSE IF c = 1 THEN p.y ELSE p.z]

\* Clouds of n points: BasePoint everywhere but at up to k indices, which
\* hold points of the given palette.
CloudsFrom(n, k, palette) ==
    LET Sites == {S \in SUBSET (0..(n - 1)) : Cardinality(S) <= k}
        Fills == UNION {[S -> palette] : S \in Sites}
    IN  {Flat(n, [i \in 0..(n - 1) |->
                    IF i \in DOMAIN f THEN f[i] ELSE BasePoint]) : f \in Fills}

CloudsOfSize(n, k) == CloudsFrom(n, k, Palette)

\* The scenario of the specification's section 8.
ScenarioCloud == <<0, 0, 0, 10, 0, 0, 5, 5, 0>>

Clouds ==
    UNION {CloudsOfSize(n, MaxSpecial) : n \in 0..MaxN} \cup {ScenarioCloud}

\* Number of .project-card elements of the page.
NumCards == 2

VARIABLES
    positions,      \* the live geometry's position array (posAttr.array);
                    \* a view of a detached buffer has length 0
    call,           \* the last search call and what it returned
    positionsCopy,  \* the main thread's positionsCopy array
    cards,          \* card index -> dataset (attribute name -> DOM string)
    projectTarget,  \* card index -> computeTargetPositionForProject's value
    pc,             \* "load" until the anchor dispatch block has run
    worker,         \* the Worker object: state, handlers set, worker phase
    workerInbox,    \* messages posted to the worker, not yet handled
    mainInbox,      \* events of the worker queued for the main thread
    timer,          \* the 50 ms fallback timer: none, pending, fired
    hist,           \* history: how the operation went
    ui              \* the scene as the user sees it: the selection helper
                    \* and the number of points the last frame drew

vars == <<positions, call, positionsCopy, cards, projectTarget, pc, worker,
          workerInbox, mainInbox, timer, hist, ui>>

protoVars == <<positionsCopy, cards, projectTarget, pc, worker, workerInbox,
               mainInbox, timer, hist, ui>>

\* ------------------------------------------- anchorWorker.js: target search
\* The running (bestIndex, bestDist) pair; inf stands for bestDist = Infinity.
NoBest == [index |-> 0, dist |-> 0, inf |-> TRUE]

\* d2 < bestDist
WorkerCloser(d2, best) == best.inf \/ d2 < best.dist

WorkerDist2(buf, i, t) ==
    LET j == i * 3
        dx == Val(Elem(buf, j)) - t.x
        dy == Val(Elem(buf, j + 1)) - t.y
        dz == Val(Elem(buf, j + 2)) - t.z
    IN  dx * dx + dy * dy + dz * dz

\* for (let i = from; i <= last; i += stride) { ... if (d2 < bestDist) ... }
RECURSIVE WorkerScan(_, _, _, _, _, _)
WorkerScan(buf, t, i, last, stride, best) ==
    IF i > last THEN best
    ELSE LET d2 == WorkerDist2(buf, i, t)
             nb == IF WorkerCloser(d2, best)
                   THEN [index |-> i, dist |-> d2, inf |-> FALSE]
                   ELSE best
         IN  WorkerScan(buf, t, i + stride, last, stride, nb)

\* Mutant: the coarse loop stops one point early (i < count - 1).
WorkerCoarseShort(buf, t, step) ==
    WorkerScan(buf, t, 0, (Len(buf) \div 3) - 2, step, NoBest)

WorkerCoarse(buf, t, step) ==
    WorkerScan(buf, t, 0, (Len(buf) \div 3) - 1, step, NoBest)

WorkerRefineStart(bestIndex, step) == Max(0, bestIndex - step * RefineFactor)
\* Mutant: the window's upper end forgets the factor 4.
WorkerRefineEndNarrow(count, bestIndex, step) ==
    Min(count - 1, bestIndex + step)

WorkerRefineEnd(count, bestIndex, step) ==
    Min(count - 1, bestIndex + step * RefineFactor)

WorkerBest(buf, t, step) ==
    LET count == Len(buf) \div 3
        coarse == WorkerCoarse(buf, t, step)
    IN  IF step > 1
        THEN WorkerScan(buf, t, WorkerRefineStart(coarse.index, step),
                        WorkerRefineEnd(count, coarse.index, step), 1, coarse)
        ELSE coarse

\* Mutant: the coordinates are read at the point index, not at index * 3.
findNearestToTargetNoOffset(buf, t, step) ==
    LET best == WorkerBest(buf, t, step)
        j == best.index
    IN  [index |-> best.index, x |-> Elem(buf, j), y |-> Elem(buf, j + 1),
         z |-> Elem(buf, j + 2)]

findNearestToTarget(buf, t, step) ==
    LET best == WorkerBest(buf, t, step)
        j == best.index * 3
    IN  [index |-> best.index, x |-> Elem(buf, j), y |-> Elem(buf, j + 1),
         z |-> Elem(buf, j + 2)]

\* ------------------------------------------------ script.js: target search
\* posAttr.count and posAttr.getX/Y/Z(i) of the position attribute (item
\* size 3) over its array.
AttrCount(arr) == Len(arr) \div 3
GetX(arr, i) == Elem(arr, i * 3)
GetY(arr, i) == Elem(arr, i * 3 + 1)
GetZ(arr, i) == Elem(arr, i * 3 + 2)

\* Mutant: the stride is not derived from the point count.
DefaultStepOne(count) == 1

\* Math.max(1, Math.floor(count / 100000))
DefaultStep(count) == Max(1, count \div StepDivisor)

\* d2 < bestDistSq
MainCloser(d2, best) == best.inf \/ d2 < best.dist

MainDist2(arr, i, pos) ==
    LET dx == Val(GetX(arr, i)) - pos.x
        dy == Val(GetY(arr, i)) - pos.y
        dz == Val(GetZ(arr, i)) - pos.z
    IN  dx * dx + dy * dy + dz * dz

RECURSIVE MainScan(_, _, _, _, _, _)
MainScan(arr, pos, i, last, stride, best) ==
    IF i > last THEN best
    ELSE LET d2 == MainDist2(arr, i, pos)
             nb == IF MainCloser(d2, best)
                   THEN [index |-> i, dist |-> d2, inf |-> FALSE]
                   ELSE best
         IN  MainScan(arr, pos, i + stride, last, stride, nb)

MainCoarse(arr, pos) ==
    MainScan(arr, pos, 0, AttrCount(arr) - 1, DefaultStep(AttrCount(arr)),
             NoBest)

MainRefineStart(bestIndex, step) == Max(0, bestIndex - step * RefineFactor)
MainRefineEnd(count, bestIndex, step) ==
    Min(count - 1, bestIndex + step * RefineFactor)

MainBest(arr, pos) ==
    LET count == AttrCount(arr)
        step == DefaultStep(count)
        coarse == MainCoarse(arr, pos)
    IN  IF step > 1
        THEN MainScan(arr, pos, MainRefineStart(coarse.index, step),
                      MainRefineEnd(count, coarse.index, step), 1, coarse)
        ELSE coarse

\* { index, position: Vector3(getX, getY, getZ) }
findNearestParticleTo(arr, pos) ==
    LET best == MainBest(arr, pos)
    IN  [index |-> best.index,
         position |-> [x |-> GetX(arr, best.index),
                       y |-> GetY(arr, best.index),
                       z |-> GetZ(arr, best.index)]]

\* --------------------------------------------------- script.js: ray search
\* The ray search's refinement radius is Math.max(sampleStep * 6, 64).
RayRefineFactor == 6
RayRefineMin == 64

\* The running (bestIndex, bestScore) pair of the ray search: bestIndex
\* starts at -1 and bestScore at Infinity.
NoRayBest == [index |-> -1, dist |-> 0, inf |-> TRUE]

Null == [isNull |-> TRUE]

\* Mutant: the squared distance leaves out dz.
PerpDist2NoZ(arr, i, origin, dir) ==
    LET px == Val(GetX(arr, i))
        py == Val(GetY(arr, i))
        vx == px - origin.x
        vy == py - origin.y
        vz == Val(GetZ(arr, i)) - origin.z
        t == vx * dir.x + vy * dir.y + vz * dir.z
        dx == px - (origin.x + dir.x * t)
        dy == py - (origin.y + dir.y * t)
    IN  dx * dx + dy * dy

\* perpDist2 of point i: |P - (origin + dir * dot(P - origin, dir))|^2
PerpDist2(arr, i, origin, dir) ==
    LET px == Val(GetX(arr, i))
        py == Val(GetY(arr, i))
        pz == Val(GetZ(arr, i))
        vx == px - origin.x
        vy == py - origin.y
        vz == pz - origin.z
        t == vx * dir.x + vy * dir.y + vz * dir.z
        cx == origin.x + dir.x * t
        cy == origin.y + dir.y * t
        cz == origin.z + dir.z * t
        dx == px - cx
        dy == py - cy
        dz == pz - cz
    IN  dx * dx + dy * dy + dz * dz

\* perpDist2 < bestScore
RayCloser(d2, best) == best.inf \/ d2 < best.dist

\* Mutant: points behind the ray's origin (t < 0) are skipped.
RECURSIVE RayScanForward(_, _, _, _, _, _, _)
RayScanForward(arr, origin, dir, i, last, stride, best) ==
    IF i > last THEN best
    ELSE LET d2 == PerpDist2(arr, i, origin, dir)
             t == (Val(GetX(arr, i)) - origin.x) * dir.x
                    + (Val(GetY(arr, i)) - origin.y) * dir.y
                    + (Val(GetZ(arr, i)) - origin.z) * dir.z
             nb == IF t >= 0 /\ RayCloser(d2, best)
                   THEN [index |-> i, dist |-> d2, inf |-> FALSE]
                   ELSE best
         IN  RayScanForward(arr, origin, dir, i + stride, last, stride, nb)

RECURSIVE RayScan(_, _, _, _, _, _, _)
RayScan(arr, origin, dir, i, last, stride, best) ==
    IF i > last THEN best
    ELSE LET d2 == PerpDist2(arr, i, origin, dir)
             nb == IF RayCloser(d2, best)
                   THEN [index |-> i, dist |-> d2, inf |-> FALSE]
                   ELSE best
         IN  RayScan(arr, origin, dir, i + stride, last, stride, nb)

RayCoarse(arr, origin, dir, sampleStep) ==
    RayScan(arr, origin, dir, 0, AttrCount(arr) - 1, sampleStep, NoRayBest)

\* Mutant: no cutoff is applied to a point that was found.
RayMissNever(best, maxPerpDist) == best.inf

\* bestScore > maxPerpDist * maxPerpDist
RayMiss(best, maxPerpDist) ==
    best.inf \/ best.dist > maxPerpDist * maxPerpDist

\* Mutant: the refinement starts at the coarse best and looks only ahead.
RayRefineAhead(arr, origin, dir, sampleStep, coarse) ==
    LET count == AttrCount(arr)
        radius == Max(sampleStep * RayRefineFactor, RayRefineMin)
        start == coarse.index
        end == Min(count - 1, coarse.index + radius)
    IN  RayScan(arr, origin, dir, start, end, 1, coarse)

RayRefine(arr, origin, dir, sampleStep, coarse) ==
    LET count == AttrCount(arr)
        radius == Max(sampleStep * RayRefineFactor, RayRefineMin)
        start == Max(0, coarse.index - radius)
        end == Min(count - 1, coarse.index + radius)
    IN  RayScan(arr, origin, dir, start, end, 1, coarse)

findNearestParticleToRay(arr, origin, dir, sampleStep, maxPerpDist) ==
    LET coarse == RayCoarse(arr, origin, dir, sampleStep)
    IN  IF coarse.index = -1 THEN Null
        ELSE IF RayMiss(coarse, maxPerpDist) THEN Null
        ELSE LET best == RayRefine(arr, origin, dir, sampleStep, coarse)
             IN  [index |-> best.index,
                  position |-> [x |-> GetX(arr, best.index),
                                y |-> GetY(arr, best.index),
                                z |-> GetZ(arr, best.index)],
                  perpDist2 |-> best.dist]

\* The values a loop variable takes: for (i = from; i <= last; i += stride).
RECURSIVE LoopIndices(_, _, _)
LoopIndices(i, last, stride) ==
    IF i > last THEN {}
    ELSE {i} \cup LoopIndices(i + stride, last, stride)

\* The indices the coarse loop of findNearestParticleTo visits:
\* for (let i = 0; i < count; i += step) with the default stride.
MainCoarseIndices(arr) ==
    LoopIndices(0, AttrCount(arr) - 1, DefaultStep(AttrCount(arr)))

\* Mutant: the position at bestIndex is read before the two null tests.
RayReadsEager(arr, origin, dir, sampleStep, maxPerpDist) ==
    LET count == AttrCount(arr)
        coarse == RayCoarse(arr, origin, dir, sampleStep)
        radius == Max(sampleStep * RayRefineFactor, RayRefineMin)
        start == Max(0, coarse.index - radius)
        end == Min(count - 1, coarse.index + radius)
        scanned == LoopIndices(0, count - 1, sampleStep) \cup {coarse.index}
    IN  IF coarse.index = -1 THEN scanned
        ELSE IF RayMiss(coarse, maxPerpDist) THEN scanned
        ELSE scanned \cup LoopIndices(start, end, 1)
                \cup {RayRefine(arr, origin, dir, sampleStep, coarse).index}

\* The indices i for which the ray search calls posAttr.getX/getY/getZ(i):
\* the coarse loop, then, past the two null tests, the refinement loop and
\* the final read at bestIndex.
RayReads(arr, origin, dir, sampleStep, maxPerpDist) ==
    LET count == AttrCount(arr)
        coarse == RayCoarse(arr, origin, dir, sampleStep)
        radius == Max(sampleStep * RayRefineFactor, RayRefineMin)
        start == Max(0, coarse.index - radius)
        end == Min(count - 1, coarse.index + radius)
        scanned == LoopIndices(0, count - 1, sampleStep)
    IN  IF coarse.index = -1 THEN scanned
        ELSE IF RayMiss(coarse, maxPerpDist) THEN scanned
        ELSE scanned \cup LoopIndices(start, end, 1)
                \cup {RayRefine(arr, origin, dir, sampleStep, coarse).index}

\* Mutant: the refinement's first index is not clamped at 0.
WorkerReadsUnclamped(buf, t, step) ==
    LET count == Len(buf) \div 3
        coarse == WorkerCoarse(buf, t, step)
        scanned == LoopIndices(0, count - 1, step)
    IN  IF step > 1
        THEN scanned
                \cup LoopIndices(coarse.index - step * RefineFactor,
                                 WorkerRefineEnd(count, coarse.index, step), 1)
                \cup {WorkerBest(buf, t, step).index}
        ELSE scanned \cup {coarse.index}

\* The point indices i at which the worker's search reads positions[i * 3],
\* [i * 3 + 1], [i * 3 + 2]: the coarse loop, the refinement loop when
\* step > 1, and the final read at bestIndex.
WorkerReads(buf, t, step) ==
    LET count == Len(buf) \div 3
        coarse == WorkerCoarse(buf, t, step)
        scanned == LoopIndices(0, count - 1, step)
    IN  IF step > 1
        THEN scanned
                \cup LoopIndices(WorkerRefineStart(coarse.index, step),
                                 WorkerRefineEnd(count, coarse.index, step), 1)
                \cup {WorkerBest(buf, t, step).index}
        ELSE scanned \cup {coarse.index}

\* The indices i for which findNearestParticleTo calls posAttr.getX/getY/
\* getZ(i).
MainReads(arr, pos) ==
    LET count == AttrCount(arr)
        step == DefaultStep(count)
        coarse == MainCoarse(arr, pos)
    IN  IF step > 1
        THEN MainCoarseIndices(arr)
                \cup LoopIndices(MainRefineStart(coarse.index, step),
                                 MainRefineEnd(count, coarse.index, step), 1)
                \cup {MainBest(arr, pos).index}
        ELSE MainCoarseIndices(arr) \cup {coarse.index}

\* ------------------------------------------------ DOM strings and datasets
DigitChars == <<"0", "1", "2", "3", "4", "5", "6", "7", "8", "9">>

RECURSIVE Digits(_)
Digits(n) ==
    IF n < 10 THEN <<DigitChars[n + 1]>>
    ELSE Append(Digits(n \div 10), DigitChars[(n % 10) + 1])

\* String(v) of a JS value that is an integer number or undefined: what an
\* assignment to card.dataset.<name> stores.
NumberToString(v) ==
    IF v = Undefined THEN <<"u", "n", "d", "e", "f", "i", "n", "e", "d">>
    ELSE IF Val(v) < 0 THEN <<"-">> \o Digits(-Val(v))
    ELSE Digits(Val(v))

\* card.dataset.particleIndex = index; card.dataset.anchorX = x; ...
SetAnchor(dataset, index, x, y, z) ==
    ("particleIndex" :> NumberToString(index))
        @@ ("anchorX" :> NumberToString(x))
        @@ ("anchorY" :> NumberToString(y))
        @@ ("anchorZ" :> NumberToString(z))
        @@ dataset

AnchorKeys == {"particleIndex", "anchorX", "anchorY", "anchorZ"}

\* ------------------------------------------- script.js: anchor assignment
\* The target of card index among total cards: a fixed position per card
\* (the source computes it by a trigonometric formula of index and total).
computeTargetPositionForProject(index, total) == projectTarget[index]

assignProjectAnchorsMainThread(cs, arr) ==
    LET total == NumCards
    IN  [i \in 0..(NumCards - 1) |->
            LET target == computeTargetPositionForProject(i, total)
                nearest == findNearestParticleTo(arr, target)
            IN  SetAnchor(cs[i], Num(nearest.index), nearest.position.x,
                          nearest.position.y, nearest.position.z)]

\* Mutant: every card is given the first anchor (anchors[0] for anchors[i]).
ApplyAnchorsFirst(cs, anchors) ==
    [i \in 0..(NumCards - 1) |->
        IF 1 \in DOMAIN anchors
        THEN LET a == anchors[1]
             IN  SetAnchor(cs[i], Num(a.index), a.x, a.y, a.z)
        ELSE cs[i]]

\* worker.onmessage: anchors[i] goes to card i; a missing anchor is skipped.
ApplyAnchors(cs, anchors) ==
    [i \in 0..(NumCards - 1) |->
        IF (i + 1) \in DOMAIN anchors
        THEN LET a == anchors[i + 1]
             IN  SetAnchor(cs[i], Num(a.index), a.x, a.y, a.z)
        ELSE cs[i]]

\* The targets array of the dispatch block, in card order.
DispatchTargets ==
    [k \in 1..NumCards |->
        computeTargetPositionForProject(k - 1, NumCards)]

\* Mutant: the live array's buffer is posted and transferred.
DispatchBufferLive == "live"

\* Which array's buffer the message carries and the transfer list names:
\* positionsCopy.buffer.
DispatchBuffer == "copy"

\* ------------------------------------------------- anchorWorker.js: handler
\* Mutant: the worker ignores the stride of the message.
StepAlwaysOne(step) == 1

\* data.step || 1
StepOrOne(step) == IF step = 0 THEN 1 ELSE step

\* targets.map(t => findNearestToTarget(t.x, t.y, t.z))
WorkerAnchors(msg) ==
    [k \in 1..Len(msg.targets) |->
        findNearestToTarget(msg.positions, msg.targets[k],
                            StepOrOne(msg.step))]

\* ------------------------------------------------------- protocol state
NoCall == [fn |-> "none"]

NoWorker == [state |-> "none", handlers |-> FALSE, phase |-> "idle"]

NoHist == [mode |-> "none", snapshot |-> << >>, created |-> 0, sent |-> 0,
           applied |-> 0, fallbacks |-> 0, replies |-> 0, terminated |-> 0,
           regens |-> 0, staleInFlight |-> FALSE, clickStored |-> FALSE]

\* let selectedHelper = null; let activeBeam = null; the scene holds no
\* helper and no beam, the HUD is hidden, the controls are enabled, nothing
\* is scheduled and no frame has been rendered.  dismissed records
\* that the last selecting or deselecting input was a right-click or Escape;
\* the program does not keep it.
NoUI ==
    [selectedHelper |-> Null, drawn |-> 0, scene |-> {}, activeBeam |-> Null,
     hud |-> [hidden |-> TRUE, show |-> FALSE], controlsEnabled |-> TRUE,
     tweens |-> << >>, beamLoops |-> << >>, timers |-> << >>,
     dismissed |-> FALSE]

\* The clouds the channel is run on: generateGalaxy allocates a non-empty
\* cloud; they hold one non-base point fewer than the searches' clouds.
ProtocolClouds ==
    UNION {CloudsOfSize(n, MaxSpecial - 1) : n \in 1..MaxN}
        \cup {ScenarioCloud}

Init ==
    /\ positions \in ProtocolClouds
    /\ call = NoCall
    /\ positionsCopy = << >>
    /\ cards = [i \in 0..(NumCards - 1) |-> << >>]
    /\ projectTarget \in [0..(NumCards - 1) -> Targets]
    /\ pc = "load"
    /\ worker = NoWorker
    /\ workerInbox = << >>
    /\ mainInbox = << >>
    /\ timer = "none"
    /\ hist = NoHist
    /\ ui = NoUI

\* Mutant: the branch without window.Worker schedules nothing.
DispatchNoWorkerNoTimer ==
    /\ pc = "load"
    /\ pc' = "idle"
    /\ positionsCopy' = positions
    /\ hist' = [hist EXCEPT !.mode = "noWorker", !.snapshot = positions]
    /\ UNCHANGED <<ui, positions, call, cards, projectTarget, worker,
                   workerInbox, mainInbox, timer>>

\* window.Worker is absent: setTimeout(assignProjectAnchorsMainThread, 50).
DispatchNoWorker ==
    /\ pc = "load"
    /\ pc' = "idle"
    /\ positionsCopy' = positions
    /\ timer' = "pending"
    /\ hist' = [hist EXCEPT !.mode = "noWorker", !.snapshot = positions]
    /\ UNCHANGED <<ui, positions, call, cards, projectTarget, worker,
                   workerInbox, mainInbox>>

\* new Worker(...) throws: the catch branch runs the fallback.
DispatchCtorThrows ==
    /\ pc = "load"
    /\ pc' = "idle"
    /\ positionsCopy' = positions
    /\ cards' = assignProjectAnchorsMainThread(cards, positions)
    /\ hist' = [hist EXCEPT !.mode = "ctorThrew", !.snapshot = positions,
                            !.fallbacks = @ + 1]
    /\ UNCHANGED <<ui, positions, call, projectTarget, worker, workerInbox,
                   mainInbox, timer>>

\* worker.postMessage(...) throws: nothing was transferred, no handler is
\* set, and the catch branch runs the fallback.
DispatchPostThrows ==
    /\ pc = "load"
    /\ pc' = "idle"
    /\ positionsCopy' = positions
    /\ worker' = [state |-> "alive", handlers |-> FALSE, phase |-> "idle"]
    /\ cards' = assignProjectAnchorsMainThread(cards, positions)
    /\ hist' = [hist EXCEPT !.mode = "postThrew", !.snapshot = positions,
                            !.created = @ + 1, !.fallbacks = @ + 1]
    /\ UNCHANGED <<ui, positions, call, projectTarget, workerInbox, mainInbox,
                   timer>>

\* Mutant: the worker path does not look at whether the block already ran.
DispatchToWorkerAgain ==
    /\ pc \in {"load", "idle"}
    /\ pc' = "idle"
    /\ workerInbox' =
          <<[positions |-> positions, targets |-> DispatchTargets,
             step |-> DefaultStep(AttrCount(positions))]>>
    /\ positionsCopy' = << >>
    /\ worker' = [state |-> "alive", handlers |-> TRUE, phase |-> "idle"]
    /\ hist' = [hist EXCEPT !.mode = "dispatched", !.snapshot = positions,
                            !.created = @ + 1, !.sent = @ + 1]
    /\ UNCHANGED <<ui, positions, call, cards, projectTarget, mainInbox,
                   timer>>

\* The worker is created, the message is posted with its buffer transferred
\* (the sender's view of a transferred buffer is emptied), and onmessage and
\* onerror are set.
DispatchToWorker ==
    /\ pc = "load"
    /\ pc' = "idle"
    /\ LET copy == positions
           sent == IF DispatchBuffer = "copy" THEN copy ELSE positions
       IN  /\ workerInbox' =
                 <<[positions |-> sent, targets |-> DispatchTargets,
                    step |-> DefaultStep(AttrCount(positions))]>>
           /\ positionsCopy' = IF DispatchBuffer = "copy" THEN << >> ELSE copy
           /\ positions' = IF DispatchBuffer = "copy" THEN positions ELSE << >>
    /\ worker' = [state |-> "alive", handlers |-> TRUE, phase |-> "idle"]
    /\ hist' = [hist EXCEPT !.mode = "dispatched", !.snapshot = positions,
                            !.created = @ + 1, !.sent = @ + 1]
    /\ UNCHANGED <<ui, call, cards, projectTarget, mainInbox, timer>>

\* The anchor dispatch block (script.js:270-314), run once at load.
Dispatch ==
    \/ DispatchNoWorker
    \/ DispatchCtorThrows
    \/ DispatchPostThrows
    \/ DispatchToWorker

\* self.onmessage of the worker: one reply with the anchors of the targets.
WorkerRun ==
    /\ worker.state = "alive"
    /\ worker.phase = "idle"
    /\ workerInbox # << >>
    /\ mainInbox' = Append(mainInbox,
                           [type |-> "message",
                            anchors |-> WorkerAnchors(Head(workerInbox))])
    /\ workerInbox' = Tail(workerInbox)
    /\ worker' = [worker EXCEPT !.phase = "replied"]
    /\ UNCHANGED <<ui, positions, call, positionsCopy, cards, projectTarget, pc,
                   timer, hist>>

\* The worker script fails to load or its handler throws: an error event.
WorkerFail ==
    /\ worker.state = "alive"
    /\ worker.phase = "idle"
    /\ mainInbox' = Append(mainInbox, [type |-> "error"])
    /\ worker' = [worker EXCEPT !.phase = "failed"]
    /\ UNCHANGED <<ui, positions, call, positionsCopy, cards, projectTarget, pc,
                   workerInbox, timer, hist>>

\* worker.terminate(): the worker is gone and nothing queued is delivered.
Terminated == [worker EXCEPT !.state = "terminated"]

\* Mutant: onmessage applies the anchors and leaves the worker running.
OnMessageNoTerminate ==
    /\ worker.state = "alive"
    /\ worker.handlers
    /\ mainInbox # << >>
    /\ Head(mainInbox).type = "message"
    /\ cards' = ApplyAnchors(cards, Head(mainInbox).anchors)
    /\ mainInbox' = Tail(mainInbox)
    /\ hist' = [hist EXCEPT !.applied = @ + 1, !.replies = @ + 1]
    /\ UNCHANGED <<ui, positions, call, positionsCopy, projectTarget, pc, timer,
                   worker, workerInbox>>

\* Mutant: onmessage drops the reply of a request made before a regeneration.
OnMessageChecksGeneration ==
    /\ worker.state = "alive"
    /\ worker.handlers
    /\ mainInbox # << >>
    /\ Head(mainInbox).type = "message"
    /\ cards' = IF hist.regens = 0
                THEN ApplyAnchors(cards, Head(mainInbox).anchors)
                ELSE cards
    /\ worker' = Terminated
    /\ mainInbox' = << >>
    /\ workerInbox' = << >>
    /\ hist' = [hist EXCEPT !.applied = IF hist.regens = 0 THEN @ + 1 ELSE @,
                            !.replies = @ + 1, !.terminated = @ + 1]
    /\ UNCHANGED <<ui, positions, call, positionsCopy, projectTarget, pc,
                   timer>>

\* worker.onmessage (script.js:289-300).
OnMessage ==
    /\ worker.state = "alive"
    /\ worker.handlers
    /\ mainInbox # << >>
    /\ Head(mainInbox).type = "message"
    /\ cards' = ApplyAnchors(cards, Head(mainInbox).anchors)
    /\ worker' = Terminated
    /\ mainInbox' = << >>
    /\ workerInbox' = << >>
    /\ hist' = [hist EXCEPT !.applied = @ + 1, !.replies = @ + 1,
                            !.terminated = @ + 1]
    /\ UNCHANGED <<ui, positions, call, positionsCopy, projectTarget, pc, timer>>

\* Mutant: onerror only terminates the worker.
OnErrorNoFallback ==
    /\ worker.state = "alive"
    /\ worker.handlers
    /\ mainInbox # << >>
    /\ Head(mainInbox).type = "error"
    /\ worker' = Terminated
    /\ mainInbox' = << >>
    /\ workerInbox' = << >>
    /\ hist' = [hist EXCEPT !.terminated = @ + 1]
    /\ UNCHANGED <<ui, positions, call, positionsCopy, cards, projectTarget, pc,
                   timer>>

\* worker.onerror (script.js:302-306).
OnError ==
    /\ worker.state = "alive"
    /\ worker.handlers
    /\ mainInbox # << >>
    /\ Head(mainInbox).type = "error"
    /\ cards' = assignProjectAnchorsMainThread(cards, positions)
    /\ worker' = Terminated
    /\ mainInbox' = << >>
    /\ workerInbox' = << >>
    /\ hist' = [hist EXCEPT !.fallbacks = @ + 1, !.terminated = @ + 1]
    /\ UNCHANGED <<ui, positions, call, positionsCopy, projectTarget, pc, timer>>

\* An event of a worker on which no handler was set is dropped.
DropEvent ==
    /\ worker.state = "alive"
    /\ ~worker.handlers
    /\ mainInbox # << >>
    /\ mainInbox' = Tail(mainInbox)
    /\ UNCHANGED <<ui, positions, call, positionsCopy, cards, projectTarget, pc,
                   worker, workerInbox, timer, hist>>

\* Mutant: the timer repeats (setInterval for setTimeout).
TimerRepeats == "pending"

\* What the fallback timer is after it fired: setTimeout fires once.
TimerAfterFire == "fired"

\* The 50 ms timer of the branch without window.Worker fires.
TimerFire ==
    /\ timer = "pending"
    /\ timer' = TimerAfterFire
    /\ cards' = assignProjectAnchorsMainThread(cards, positions)
    /\ hist' = [hist EXCEPT !.fallbacks = @ + 1]
    /\ UNCHANGED <<ui, positions, call, positionsCopy, projectTarget, pc, worker,
                   workerInbox, mainInbox>>

Next ==
    \/ Dispatch
    \/ WorkerRun
    \/ WorkerFail
    \/ OnMessage
    \/ OnError
    \/ DropEvent
    \/ TimerFire

Spec == Init /\ [][Next]_vars

\* The event loop runs every queued task, the worker replies or fails, and a
\* pending timer fires.
Fairness ==
    /\ WF_vars(Dispatch)
    /\ WF_vars(WorkerRun \/ WorkerFail)
    /\ WF_vars(OnMessage)
    /\ WF_vars(OnError)
    /\ WF_vars(TimerFire)

\* Progress is checked over the clouds of at most LiveMaxN points.
LiveInit ==
    /\ Init
    /\ AttrCount(positions) <= LiveMaxN

FairSpec == LiveInit /\ [][Next]_vars /\ Fairness

\* ---------------------------------------------- specification of the searches
\* Rays: an origin and an axis-aligned unit direction (unit length keeps the
\* arithmetic exact).
RayOrigins == {Vec(0, 1, 0), Vec(-2, 5, 0)}
\* The ray search's own specification also casts rays from an origin that
\* has points of the clouds behind it.
CallOrigins ==
    IF pc = "ray" THEN RayOrigins \cup {Vec(3, 0, 0)} ELSE RayOrigins
RayDirs == {Vec(1, 0, 0), Vec(0, -1, 0), Vec(0, 0, 1)}
\* Largest maxPerpDist handed to the ray search.
MaxPerp == 1

SearchInit ==
    /\ positions \in Clouds
    /\ call = NoCall
    /\ positionsCopy = << >>
    /\ cards = << >>
    /\ projectTarget = << >>
    /\ pc = "search"
    /\ worker = NoWorker
    /\ workerInbox = << >>
    /\ mainInbox = << >>
    /\ timer = "none"
    /\ hist = NoHist
    /\ ui = NoUI

CallFindNearestToTarget ==
    /\ call = NoCall
    /\ \E t \in Targets, s \in 1..MaxStep :
          call' = [fn |-> "findNearestToTarget", target |-> t, step |-> s,
                   ret |-> findNearestToTarget(positions, t, s)]
    /\ UNCHANGED <<positions, protoVars>>

CallFindNearestParticleTo ==
    /\ call = NoCall
    /\ \E t \in Targets :
          call' = [fn |-> "findNearestParticleTo", target |-> t,
                   ret |-> findNearestParticleTo(positions, t)]
    /\ UNCHANGED <<positions, protoVars>>

\* Mutant: the ray search itself moves the selection to the point it found.
CallFindNearestParticleToRaySelects ==
    /\ call = NoCall
    /\ \E o \in CallOrigins, d \in RayDirs, s \in 1..MaxStep, m \in 0..MaxPerp :
          LET ret == findNearestParticleToRay(positions, o, d, s, m)
          IN  /\ call' = [fn |-> "findNearestParticleToRay", origin |-> o,
                          dir |-> d, sampleStep |-> s, maxPerpDist |-> m,
                          ret |-> ret]
              /\ ui' = [ui EXCEPT !.selectedHelper =
                            IF ret = Null THEN @ ELSE ret.position]
    /\ UNCHANGED <<positions, positionsCopy, cards, projectTarget, pc, worker,
                   workerInbox, mainInbox, timer, hist>>

CallFindNearestParticleToRay ==
    /\ call = NoCall
    /\ \E o \in CallOrigins, d \in RayDirs, s \in 1..MaxStep, m \in 0..MaxPerp :
          call' = [fn |-> "findNearestParticleToRay", origin |-> o, dir |-> d,
                   sampleStep |-> s, maxPerpDist |-> m,
                   ret |-> findNearestParticleToRay(positions, o, d, s, m)]
    /\ UNCHANGED <<positions, protoVars>>

SearchNext ==
    \/ CallFindNearestToTarget
    \/ CallFindNearestParticleTo
    \/ CallFindNearestParticleToRay

SpecSearch == SearchInit /\ [][SearchNext]_vars

\* The searches on the non-empty clouds the channel is run on.
NonEmptyInit ==
    /\ positions \in ProtocolClouds
    /\ call = NoCall
    /\ positionsCopy = << >>
    /\ cards = << >>
    /\ projectTarget = << >>
    /\ pc = "search"
    /\ worker = NoWorker
    /\ workerInbox = << >>
    /\ mainInbox = << >>
    /\ timer = "none"
    /\ hist = NoHist
    /\ ui = NoUI

SpecReads == NonEmptyInit /\ [][SearchNext]_vars

\* ---------------------------------------------- script.js: frames and picks
\* Largest number of points of a cloud in the runs with frames and picks.
UIMaxN == 2
\* The source's default maxPerpDist is 0.6; model coordinates are measured in
\* that unit.
DefaultMaxPerpDist == 1

\* The ray search's default stride divides the count by 150000, one and a
\* half times the target search's divisor.
RayStepDivisor == (3 * StepDivisor) \div 2

\* sampleStep = Math.max(1, Math.floor(count / 150000))
DefaultSampleStep(count) == Max(1, count \div RayStepDivisor)

\* The frame loop is started (animate(), script.js:326) and the pointerdown
\* listener is added (script.js:477) by the top-level code that follows the
\* dispatch block: both are in place once the block has returned.
InteractionReady == pc = "idle"

\* -------------------------------------------- script.js: scene, HUD, tweens
\* Milliseconds between two animation frames of the model.
FrameMs == 500

\* Largest numbers of camera tweens, of beam loops and of showHUD timers
\* pending at once.
MaxTweens == 2
MaxBeamLoops == 2
MaxTimers == 2

\* tweenCamera's durations: the pick (1000), the way home after a miss (700)
\* and the flight to a banner's anchor (1200).
PickTweenMs == 1000
HomeTweenMs == 700
BannerTweenMs == 1200

\* setTimeout(() => showHUD(bannerData), 650)
ShowHUDDelayMs == 650

\* const fadeIn = 250, hold = 900, fadeOut = 600; opacities are in
\* thousandths (0.95 is 950).
fadeIn == 250
hold == 900
fadeOut == 600
PeakOpacity == 950

\* parseFloat of a dataset entry: the number its leading sign and digits
\* spell, NaN when there are none (an absent entry reads as undefined).
NaN == [nan |-> TRUE, val |-> 0]

Parsed(n) == [nan |-> FALSE, val |-> n]

isNaN(v) == v.nan

IsDigit(c) == \E k \in 1..10 : DigitChars[k] = c

DigitValue(c) == (CHOOSE k \in 1..10 : DigitChars[k] = c) - 1

RECURSIVE ParseDigits(_, _)
ParseDigits(s, acc) ==
    IF s = << >> \/ ~IsDigit(Head(s)) THEN acc
    ELSE ParseDigits(Tail(s), 10 * acc + DigitValue(Head(s)))

DatasetGet(dataset, key) ==
    IF key \in DOMAIN dataset THEN dataset[key] ELSE NumberToString(Undefined)

parseFloat(s) ==
    LET neg == s # << >> /\ Head(s) = "-"
        body == IF neg THEN Tail(s) ELSE s
    IN  IF body = << >> \/ ~IsDigit(Head(body)) THEN NaN
        ELSE IF neg THEN Parsed(-ParseDigits(body, 0))
        ELSE Parsed(ParseDigits(body, 0))

\* hud.classList after showHUD and after hideHUD(true).
showHUD(u) == [u EXCEPT !.hud = [hidden |-> FALSE, show |-> TRUE]]

hideHUD(u) == [u EXCEPT !.hud = [hidden |-> TRUE, show |-> FALSE]]

\* The objects added to the scene after load are named by the least number
\* no object of the scene bears.
NewId(objects) ==
    CHOOSE n \in 1..(Cardinality(objects) + 1) :
        /\ \A o \in objects : o.id # n
        /\ \A m \in 1..(n - 1) : \E o \in objects : o.id = m

\* scene.remove(obj) when obj is not null.
SceneRemove(objects, obj) ==
    IF obj = Null THEN objects ELSE {o \in objects : o.id # obj.id}

\* Mutant: the new helper is added without removing the previous one.
PlaceHelperKeepsOld(u, pos) ==
    LET id == NewId(u.scene)
    IN  [u EXCEPT !.scene = @ \cup {[id |-> id, kind |-> "helper"]},
                  !.selectedHelper = [id |-> id, position |-> pos]]

\* if (selectedHelper) scene.remove(selectedHelper);
\* selectedHelper = new THREE.Mesh(...); position.copy(pos); scene.add(...)
PlaceHelper(u, pos) ==
    LET cleared == SceneRemove(u.scene, u.selectedHelper)
        id == NewId(cleared)
    IN  [u EXCEPT !.scene = cleared \cup {[id |-> id, kind |-> "helper"]},
                  !.selectedHelper = [id |-> id, position |-> pos]]

\* The right-click and Escape branches: the helper is removed and forgotten,
\* hideHUD(true).
Deselect(u) ==
    hideHUD([u EXCEPT !.scene = SceneRemove(@, u.selectedHelper),
                      !.selectedHelper = Null])

\* Mutant: a tween leaves the controls as they are.
tweenCameraKeepsControls(u, duration, onComplete) ==
    [u EXCEPT !.tweens = Append(@, [elapsed |-> 0, duration |-> duration,
                                    onComplete |-> onComplete])]

\* tweenCamera(toPos, toTarget, duration, onComplete): the controls are
\* disabled and the tween's frame callback is requested.  onComplete is Null
\* or the anchor position the banner click's callback puts the helper at.
\* The camera's position is outside this state.
tweenCamera(u, duration, onComplete) ==
    [u EXCEPT !.controlsEnabled = FALSE,
              !.tweens = Append(@, [elapsed |-> 0, duration |-> duration,
                                    onComplete |-> onComplete])]

\* createBeamFromCardToAnchor: the active beam, if any, is removed; a new
\* line of opacity 0 is added and made the active beam; its loop is
\* requested.  age is the time since the line was added (not a field of the
\* program: the loop keeps its own start).
createBeamFromCardToAnchor(u) ==
    LET cleared == SceneRemove(u.scene, u.activeBeam)
        id == NewId(cleared)
    IN  [u EXCEPT !.scene = cleared \cup {[id |-> id, kind |-> "beam"]},
                  !.activeBeam = [id |-> id, opacity |-> 0, age |-> 0],
                  !.beamLoops = Append(@, [elapsed |-> 0])]

\* The opacity animateBeam sets at elapsed < fadeIn + hold + fadeOut.
BeamOpacity(elapsed) ==
    IF elapsed < fadeIn THEN (elapsed * PeakOpacity) \div fadeIn
    ELSE IF elapsed < fadeIn + hold THEN PeakOpacity
    ELSE PeakOpacity
            - ((elapsed - (fadeIn + hold)) * PeakOpacity) \div fadeOut

\* frame(time) of each running tween, in the order the tweens were started:
\* below its duration a tween requests its next frame; at its duration it
\* enables the controls, calls onComplete and ends.
RECURSIVE RunTweens(_, _)
RunTweens(ts, u) ==
    IF ts = << >> THEN u
    ELSE LET t == Head(ts)
             enabled == [u EXCEPT !.controlsEnabled = TRUE]
         IN  RunTweens(Tail(ts),
                 IF t.elapsed < t.duration
                 THEN [u EXCEPT !.tweens = Append(@, t)]
                 ELSE IF t.onComplete = Null THEN enabled
                 ELSE PlaceHelper(enabled, t.onComplete))

\* Mutant: a beam loop that reached its end stops and leaves activeBeam in
\* place.
animateBeamOwnOnly(l, u) ==
    IF u.activeBeam = Null THEN u
    ELSE IF l.elapsed < fadeIn + hold + fadeOut
    THEN [u EXCEPT !.activeBeam.opacity = BeamOpacity(l.elapsed),
                   !.beamLoops = Append(@, l)]
    ELSE u

\* animateBeam(now) of one loop: it returns when there is no active beam;
\* within its own fade-in, hold and fade-out it sets the active beam's
\* opacity and requests its next frame; after them it removes the active
\* beam and forgets it.
animateBeam(l, u) ==
    IF u.activeBeam = Null THEN u
    ELSE IF l.elapsed < fadeIn + hold + fadeOut
    THEN [u EXCEPT !.activeBeam.opacity = BeamOpacity(l.elapsed),
                   !.beamLoops = Append(@, l)]
    ELSE [u EXCEPT !.scene = SceneRemove(@, u.activeBeam),
                   !.activeBeam = Null]

RECURSIVE RunBeamLoops(_, _)
RunBeamLoops(ls, u) ==
    IF ls = << >> THEN u
    ELSE RunBeamLoops(Tail(ls), animateBeam(Head(ls), u))

\* FrameMs later: what every pending callback reads from the clock.
Later(u) ==
    [u EXCEPT
        !.tweens = [k \in DOMAIN @ |->
                       [@[k] EXCEPT !.elapsed = @ + FrameMs]],
        !.beamLoops = [k \in DOMAIN @ |->
                          [@[k] EXCEPT !.elapsed = @ + FrameMs]],
        !.timers = [k \in DOMAIN @ |->
                       [@[k] EXCEPT !.left = Max(0, @ - FrameMs)]],
        !.activeBeam = IF @ = Null THEN @
                       ELSE [@ EXCEPT !.age = Min(@ + FrameMs,
                                                  fadeIn + hold + fadeOut)]]

\* The callbacks of one animation frame after animate(): the tweens' and
\* the beam loops', each kind in order of registration (a tween's callback
\* and a beam loop touch no common state).
RunFrame(u) ==
    LET aged == Later(u)
    IN  RunBeamLoops(aged.beamLoops,
            RunTweens(aged.tweens,
                [aged EXCEPT !.tweens = << >>, !.beamLoops = << >>]))

\* Mutant: frames are held back while the worker's reply is awaited.
AnimateWaits ==
    /\ InteractionReady
    /\ ~(hist.mode = "dispatched" /\ worker.state = "alive")
    /\ ui' = [RunFrame(ui) EXCEPT !.drawn = AttrCount(positions)]
    /\ UNCHANGED <<positions, call, positionsCopy, cards, projectTarget, pc,
                   worker, workerInbox, mainInbox, timer, hist>>

\* One animation frame, FrameMs after the previous one: animate() re-arms
\* itself and renders the live geometry, and then the frame callbacks of the
\* running tweens and beams run.  animate() is first called after the
\* dispatch block.
Animate ==
    /\ InteractionReady
    /\ ui' = [RunFrame(ui) EXCEPT !.drawn = AttrCount(positions)]
    /\ UNCHANGED <<positions, call, positionsCopy, cards, projectTarget, pc,
                   worker, workerInbox, mainInbox, timer, hist>>

\* pointerdown with button 0: the ray search on the live geometry with its
\* default stride and cutoff.  A hit replaces the selection helper by one at
\* the hit's position, flies the camera there and shows the HUD; a miss
\* flies the camera home.  The listener is added after the dispatch block.
PointerDownLeft ==
    /\ InteractionReady
    /\ Len(ui.tweens) < MaxTweens
    /\ \E o \in RayOrigins, d \in RayDirs :
          LET hit == findNearestParticleToRay(
                         positions, o, d,
                         DefaultSampleStep(AttrCount(positions)),
                         DefaultMaxPerpDist)
          IN  ui' = IF hit = Null
                    THEN tweenCamera(ui, HomeTweenMs, Null)
                    ELSE [showHUD(tweenCamera(PlaceHelper(ui, hit.position),
                                              PickTweenMs, Null))
                            EXCEPT !.dismissed = FALSE]
    /\ UNCHANGED <<positions, call, positionsCopy, cards, projectTarget, pc,
                   worker, workerInbox, mainInbox, timer, hist>>

\* pointerdown with button 2.
PointerDownRight ==
    /\ InteractionReady
    /\ ui' = [Deselect(ui) EXCEPT !.dismissed = TRUE]
    /\ UNCHANGED <<positions, call, positionsCopy, cards, projectTarget, pc,
                   worker, workerInbox, mainInbox, timer, hist>>

\* keydown with key Escape.
KeydownEscape ==
    /\ InteractionReady
    /\ ui' = [Deselect(ui) EXCEPT !.dismissed = TRUE]
    /\ UNCHANGED <<positions, call, positionsCopy, cards, projectTarget, pc,
                   worker, workerInbox, mainInbox, timer, hist>>

\* A click on the HUD's close button: hideHUD(true).
HudCloseClick ==
    /\ InteractionReady
    /\ ui' = hideHUD(ui)
    /\ UNCHANGED <<positions, call, positionsCopy, cards, projectTarget, pc,
                   worker, workerInbox, mainInbox, timer, hist>>

\* Mutant: a banner whose anchor is not set is left without one.
BannerAnchorNotStored(i) ==
    LET nearest == findNearestParticleTo(
                       positions, computeTargetPositionForProject(i, NumCards))
    IN  [cards |-> cards, anchorPos |-> nearest.position, stored |-> FALSE]

\* The anchor a click on banner i flies to and the cards after it: the
\* anchor parsed from the card when all three coordinates parse, else the
\* nearest particle to the card's target, which is stored on the card.  (The
\* search always returns an object with a position, so the branch that
\* flies home instead is never taken.)
BannerAnchor(i) ==
    LET ax == parseFloat(DatasetGet(cards[i], "anchorX"))
        ay == parseFloat(DatasetGet(cards[i], "anchorY"))
        az == parseFloat(DatasetGet(cards[i], "anchorZ"))
        nearest == findNearestParticleTo(
                       positions, computeTargetPositionForProject(i, NumCards))
    IN  IF ~isNaN(ax) /\ ~isNaN(ay) /\ ~isNaN(az)
        THEN [cards |-> cards,
              anchorPos |-> [x |-> Num(ax.val), y |-> Num(ay.val),
                             z |-> Num(az.val)],
              stored |-> FALSE]
        ELSE [cards |-> [cards EXCEPT ![i] =
                            SetAnchor(@, Num(nearest.index),
                                      nearest.position.x, nearest.position.y,
                                      nearest.position.z)],
              anchorPos |-> nearest.position,
              stored |-> TRUE]

\* A click on banner i (the banners are the project cards, in their order):
\* the camera flies to the anchor and its completion puts the helper there,
\* a beam is drawn to the anchor, and showHUD is set to run 650 ms later.
BannerClick ==
    /\ InteractionReady
    /\ Len(ui.tweens) < MaxTweens
    /\ Len(ui.beamLoops) < MaxBeamLoops
    /\ Len(ui.timers) < MaxTimers
    /\ \E i \in 0..(NumCards - 1) :
          LET a == BannerAnchor(i)
              flying == tweenCamera(ui, BannerTweenMs, a.anchorPos)
              beamed == createBeamFromCardToAnchor(flying)
          IN  /\ cards' = a.cards
              /\ hist' = [hist EXCEPT !.clickStored = @ \/ a.stored]
              /\ ui' = [beamed EXCEPT
                           !.timers = Append(@, [left |-> ShowHUDDelayMs]),
                           !.dismissed = FALSE]
    /\ UNCHANGED <<positions, call, positionsCopy, projectTarget, pc,
                   worker, workerInbox, mainInbox, timer>>

\* The oldest showHUD timer fires once its delay has passed.
ShowHUDTimer ==
    /\ ui.timers # << >>
    /\ Head(ui.timers).left = 0
    /\ ui' = showHUD([ui EXCEPT !.timers = Tail(@)])
    /\ UNCHANGED <<positions, call, positionsCopy, cards, projectTarget, pc,
                   worker, workerInbox, mainInbox, timer, hist>>

UIInit ==
    /\ Init
    /\ AttrCount(positions) <= UIMaxN

UINext ==
    \/ Next
    \/ Animate
    \/ PointerDownLeft

SpecUI == UIInit /\ [][UINext]_vars

\* --------------------------------------------- specification of the scene
\* The page once the dispatch block has run with the worker's construction
\* refused (the state DispatchCtorThrows leaves): every card has its anchor.
\* The cloud is the three-point scenario.
SceneInit ==
    /\ positions = ScenarioCloud
    /\ call = NoCall
    /\ positionsCopy = positions
    /\ projectTarget \in [0..(NumCards - 1) -> Targets]
    /\ cards = assignProjectAnchorsMainThread(
                   [i \in 0..(NumCards - 1) |-> << >>], positions)
    /\ pc = "idle"
    /\ worker = NoWorker
    /\ workerInbox = << >>
    /\ mainInbox = << >>
    /\ timer = "none"
    /\ hist = [NoHist EXCEPT !.mode = "ctorThrew", !.snapshot = positions,
                             !.fallbacks = 1]
    /\ ui = NoUI

\* Every input of the page, its frames and its timers.
SceneNext ==
    \/ Animate
    \/ PointerDownLeft
    \/ PointerDownRight
    \/ KeydownEscape
    \/ HudCloseClick
    \/ BannerClick
    \/ ShowHUDTimer

SpecScene == SceneInit /\ [][SceneNext]_vars

\* ------------------------------------------- specification of the banners
\* The anchor channel together with the banner clicks, the frames and the
\* showHUD timers.
BannerNext ==
    \/ Next
    \/ Animate
    \/ BannerClick
    \/ ShowHUDTimer

BannerInit ==
    /\ Init
    /\ positions = ScenarioCloud

SpecBanner == BannerInit /\ [][BannerNext]_vars

\* --------------------------------------------- script.js: regeneration
\* Largest number of further generateGalaxy() calls.
MaxRegens == 1

\* generateGalaxy() called again after load: the old geometry is disposed and
\* a new random cloud of the same parameters.count points takes its place.
\* Nothing of the worker, the cards or the selection is touched.  The source
\* itself calls it once (script.js:208); a further call comes from outside.
Regenerate ==
    /\ pc = "idle"
    /\ hist.regens < MaxRegens
    /\ \E c \in ProtocolClouds :
          /\ Len(c) = Len(positions)
          /\ positions' = c
          /\ hist' = [hist EXCEPT
                         !.regens = @ + 1,
                         !.staleInFlight =
                             \/ @
                             \/ /\ hist.mode = "dispatched"
                                /\ worker.state = "alive"
                                /\ c # hist.snapshot]
    /\ UNCHANGED <<call, positionsCopy, cards, projectTarget, pc, worker,
                   workerInbox, mainInbox, timer, ui>>

RegenNext ==
    \/ Next
    \/ Regenerate

SpecRegen == UIInit /\ [][RegenNext]_vars

\* ------------------------------------------- specification of the ray search
\* Largest number of points of a small cloud handed to the ray search.
RayMaxN == 5

\* The palette with a point on the ray from Vec(0, 1, 0) along Vec(1, 0, 0).
RayPalette == Palette \cup {Vec(3, 1, 0)}

RayClouds == UNION {CloudsFrom(n, MaxSpecial, RayPalette) : n \in 0..RayMaxN}

RayInit ==
    /\ positions \in RayClouds
    /\ call = NoCall
    /\ positionsCopy = << >>
    /\ cards = << >>
    /\ projectTarget = << >>
    /\ pc = "ray"
    /\ worker = NoWorker
    /\ workerInbox = << >>
    /\ mainInbox = << >>
    /\ timer = "none"
    /\ hist = NoHist
    /\ ui = NoUI

RayNext == CallFindNearestParticleToRay

SpecRay == RayInit /\ [][RayNext]_vars

\* ------------------------------------------------- claims on the searches
\* Brute force over a flat buffer, written without the scans above.
NumPointsOf(buf) == Len(buf) \div 3
PointOf(buf, i) == Vec(buf[3 * i + 1], buf[3 * i + 2], buf[3 * i + 3])
EuclidSq(p, q) ==
    (p.x - q.x) * (p.x - q.x) + (p.y - q.y) * (p.y - q.y)
        + (p.z - q.z) * (p.z - q.z)
MinOf(S) == CHOOSE d \in S : \A e \in S : d <= e
MinDistSqOf(buf, t) ==
    MinOf({EuclidSq(PointOf(buf, i), t) : i \in 0..(NumPointsOf(buf) - 1)})
IsExactOf(buf, index, t) ==
    /\ index \in 0..(NumPointsOf(buf) - 1)
    /\ EuclidSq(PointOf(buf, index), t) = MinDistSqOf(buf, t)

NumPoints == NumPointsOf(positions)
PointAt(i) == PointOf(positions, i)
MinDistSq(t) == MinDistSqOf(positions, t)
IsExact(index, t) == IsExactOf(positions, index, t)

Abs(n) == IF n < 0 THEN -n ELSE n
Dot(p, q) == p.x * q.x + p.y * q.y + p.z * q.z
Minus(p, q) == Vec(p.x - q.x, p.y - q.y, p.z - q.z)
\* Squared distance of point i to the line through origin along the unit
\* vector dir: |v|^2 - (v . dir)^2.
PerpSq(i, origin, dir) ==
    LET v == Minus(PointAt(i), origin)
    IN  Dot(v, v) - Dot(v, dir) * Dot(v, dir)

\* C1: with step = 1 the target search (the worker's findNearestToTarget, and
\* findNearestParticleTo when count is below twice the divisor) returns an
\* index at the minimum squared distance over all points of a non-empty
\* cloud; on the scenario cloud with target (9,1,0) that is index 1 at
\* squared distance 2.
C1_StepOneExact ==
    /\ (call.fn = "findNearestToTarget" /\ call.step = 1 /\ NumPoints > 0)
          => IsExact(call.ret.index, call.target)
    /\ (call.fn = "findNearestParticleTo" /\ NumPoints > 0
            /\ NumPoints < 2 * StepDivisor)
          => IsExact(call.ret.index, call.target)
    /\ (/\ call.fn \in {"findNearestToTarget", "findNearestParticleTo"}
        /\ call.fn = "findNearestToTarget" => call.step = 1
        /\ positions = ScenarioCloud
        /\ call.target = Vec(9, 1, 0))
          => /\ call.ret.index = 1
             /\ EuclidSq(PointAt(call.ret.index), call.target) = 2

C1_Witness ==
    /\ call.fn = "findNearestToTarget"
    /\ call.step = 1
    /\ positions = ScenarioCloud
    /\ call.target = Vec(9, 1, 0)
    /\ call.ret.index = 1

\* Some point at the minimum distance lies within step * 4 indices of the
\* coarse phase's index.
NearestInWindow(coarseIndex, step, t) ==
    \E i \in 0..(NumPoints - 1) :
        /\ EuclidSq(PointAt(i), t) = MinDistSq(t)
        /\ Abs(i - coarseIndex) <= step * RefineFactor

\* C2: for step > 1, when a point at the true minimum distance lies within
\* step * 4 indices of the index the coarse phase found, the target search
\* returns a point at the true minimum distance.
C2_RefinementBound ==
    /\ (call.fn = "findNearestToTarget" /\ call.step > 1 /\ NumPoints > 0
            /\ NearestInWindow(WorkerCoarse(positions, call.target,
                                            call.step).index,
                               call.step, call.target))
          => IsExact(call.ret.index, call.target)
    /\ (call.fn = "findNearestParticleTo" /\ DefaultStep(NumPoints) > 1
            /\ NearestInWindow(MainCoarse(positions, call.target).index,
                               DefaultStep(NumPoints), call.target))
          => IsExact(call.ret.index, call.target)

\* The refinement found the nearest point at an index the coarse scan skipped.
C2_Witness ==
    /\ call.fn = "findNearestToTarget"
    /\ call.step > 1
    /\ NearestInWindow(WorkerCoarse(positions, call.target, call.step).index,
                       call.step, call.target)
    /\ call.ret.index % call.step # 0
    /\ call.ret.index > call.step
    /\ IsExact(call.ret.index, call.target)

\* C3: the ray search returns null whenever every point's perpendicular
\* distance to the ray exceeds maxPerpDist, whatever the sampleStep.
C3_RayMissNull ==
    (/\ call.fn = "findNearestParticleToRay"
     /\ \A i \in 0..(NumPoints - 1) :
            PerpSq(i, call.origin, call.dir)
                > call.maxPerpDist * call.maxPerpDist)
        => call.ret = Null

C3_Witness ==
    /\ call.fn = "findNearestParticleToRay"
    /\ NumPoints > 1
    /\ call.sampleStep > 1
    /\ call.maxPerpDist > 0
    /\ \A i \in 0..(NumPoints - 1) :
            PerpSq(i, call.origin, call.dir)
                > call.maxPerpDist * call.maxPerpDist
    /\ call.ret = Null

\* ------------------------------------------- claims on the worker channel
ReplyEvents == {mainInbox[k] : k \in {j \in DOMAIN mainInbox :
                                         mainInbox[j].type = "message"}}

\* The anchor the target search of the given stride finds for card i in buf.
SearchedAnchor(buf, i, step) ==
    findNearestToTarget(buf, projectTarget[i], step)

\* The four attributes card i holds are the strings of anchor a.
CardHolds(i, a) ==
    /\ AnchorKeys \subseteq DOMAIN cards[i]
    /\ cards[i]["particleIndex"] = NumberToString(Num(a.index))
    /\ cards[i]["anchorX"] = NumberToString(a.x)
    /\ cards[i]["anchorY"] = NumberToString(a.y)
    /\ cards[i]["anchorZ"] = NumberToString(a.z)

SnapshotStep == DefaultStep(NumPointsOf(hist.snapshot))

\* C4: a reply carries exactly one anchor per submitted target, anchors[i]
\* being the search result of targets[i]; once the reply is applied, card i
\* holds the result of its own target i, which for stride 1 is a point at the
\* minimum distance from target i.
C4_ReplyAligned ==
    /\ \A e \in ReplyEvents :
          /\ Len(e.anchors) = NumCards
          /\ \A i \in 0..(NumCards - 1) :
                e.anchors[i + 1] = SearchedAnchor(hist.snapshot, i,
                                                  SnapshotStep)
    /\ hist.applied > 0 =>
          \A i \in 0..(NumCards - 1) :
             /\ CardHolds(i, SearchedAnchor(hist.snapshot, i, SnapshotStep))
             /\ SnapshotStep = 1 =>
                   \E k \in 0..(NumPointsOf(hist.snapshot) - 1) :
                      /\ IsExactOf(hist.snapshot, k, projectTarget[i])
                      /\ cards[i]["particleIndex"] = NumberToString(Num(k))

\* Two cards with different targets were given different anchors.
C4_Witness ==
    /\ hist.applied = 1
    /\ projectTarget[0] # projectTarget[1]
    /\ cards[0]["particleIndex"] # cards[1]["particleIndex"]
    /\ cards[1]["particleIndex"] # <<"0">>

EmptyCards == [i \in 0..(NumCards - 1) |-> << >>]

\* C5: when the worker's reply has been applied, every card holds exactly
\* what assignProjectAnchorsMainThread would store for the same cloud and
\* targets.
C5_FallbackEquivalent ==
    (hist.applied > 0 /\ positions = hist.snapshot)
        => cards = assignProjectAnchorsMainThread(EmptyCards, positions)

\* The worker path ran with a stride above 1 and its refinement moved a card
\* to an index the coarse scan skipped.
C5_Witness ==
    /\ hist.applied = 1
    /\ positions = hist.snapshot
    /\ SnapshotStep > 1
    /\ \E i \in 0..(NumCards - 1), k \in 0..(NumPoints - 1) :
          /\ k % SnapshotStep # 0
          /\ cards[i]["particleIndex"] = NumberToString(Num(k))
    /\ cards = assignProjectAnchorsMainThread(EmptyCards, positions)

\* The fallback has run the target search for every card.
FallbackRan ==
    /\ hist.fallbacks = 1
    /\ \A i \in 0..(NumCards - 1) :
          LET n == findNearestParticleTo(positions, projectTarget[i])
          IN  CardHolds(i, [index |-> n.index, x |-> n.position.x,
                            y |-> n.position.y, z |-> n.position.z])

\* C6: in each failure mode of the channel the main thread runs the
\* synchronous fallback for every card: at once when constructing or
\* messaging the worker throws, when the 50 ms timer fires if window.Worker
\* is absent, and in onerror when the worker reports an error.
C6_FailureFallsBack ==
    /\ hist.mode \in {"ctorThrew", "postThrew"} => FallbackRan
    /\ hist.mode = "noWorker" =>
          \/ timer = "pending" /\ hist.fallbacks = 0
          \/ timer = "fired" /\ FallbackRan
    /\ (hist.mode = "dispatched" /\ worker.phase = "failed") =>
          \/ /\ worker.state = "alive"
             /\ worker.handlers
             /\ mainInbox = <<[type |-> "error"]>>
          \/ worker.state = "terminated" /\ FallbackRan

C6_Witness ==
    /\ hist.mode = "dispatched"
    /\ worker.phase = "failed"
    /\ worker.state = "terminated"
    /\ FallbackRan

AllCardsAssigned ==
    \A i \in 0..(NumCards - 1) : AnchorKeys \subseteq DOMAIN cards[i]

\* C7: under fairness of the event loop, of the worker's reply or error and
\* of the timer, every card eventually has particleIndex and anchorX/Y/Z.
C7_AssignmentCompletes == <>AllCardsAssigned

C7_Witness ==
    /\ AllCardsAssigned
    /\ hist.mode = "noWorker"
    /\ timer = "fired"

\* C8: after dispatch the live position array is attached and unchanged,
\* the buffer that was transferred is the main thread's copy, and the request
\* and the reply rest on the cloud as it was at dispatch.
C8_CopyTransferred ==
    /\ hist.mode # "none" =>
          /\ positions = hist.snapshot
          /\ AttrCount(positions) > 0
    /\ hist.mode = "dispatched" => positionsCopy = << >>
    /\ \A k \in DOMAIN workerInbox :
          workerInbox[k].positions = hist.snapshot
    /\ \A e \in ReplyEvents :
          e.anchors = [k \in 1..NumCards |->
                          SearchedAnchor(hist.snapshot, k - 1, SnapshotStep)]

C8_Witness ==
    /\ hist.mode = "dispatched"
    /\ positionsCopy = << >>
    /\ AttrCount(positions) > 1
    /\ workerInbox # << >>
    /\ Head(workerInbox).positions = positions

\* C9: the worker gets one request; once its reply is applied it is
\* terminated, nothing is queued to or from it, and no second reply is
\* delivered.
C9_OneShot ==
    /\ hist.sent <= 1
    /\ Len(workerInbox) <= 1
    /\ hist.replies <= 1
    /\ hist.applied > 0 =>
          /\ worker.state = "terminated"
          /\ workerInbox = << >>
          /\ mainInbox = << >>
          /\ hist.sent = 1

C9_Witness ==
    /\ hist.applied = 1
    /\ hist.replies = 1
    /\ worker.state = "terminated"

\* The phase of the anchor-assignment operation.
OpPhase ==
    IF pc = "load" THEN "Idle"
    ELSE IF hist.applied > 0 THEN "Completed"
    ELSE IF hist.mode = "dispatched" /\ worker.state = "alive"
    THEN "Dispatching"
    ELSE "Failed"

PhaseStep ==
    \/ OpPhase' = OpPhase
    \/ OpPhase = "Idle" /\ OpPhase' \in {"Dispatching", "Failed"}
    \/ OpPhase = "Dispatching" /\ OpPhase' \in {"Completed", "Failed"}

SingleOutcome ==
    /\ hist.applied <= 1
    /\ hist.fallbacks <= 1
    /\ hist.applied + hist.fallbacks <= 1
    /\ hist.created <= 1
    /\ OpPhase = "Completed" => worker.state = "terminated"
    /\ OpPhase = "Idle" => hist.applied + hist.fallbacks + hist.created = 0

\* C10: the operation goes Idle, Dispatching, then Completed or Failed, and
\* has one outcome: the worker's result is applied at most once, the fallback
\* runs at most once, never both, and at most one worker is ever created.
C10_SingleOutcome == []SingleOutcome /\ [][PhaseStep]_vars

C10_Witness ==
    /\ OpPhase = "Failed"
    /\ hist.mode = "dispatched"
    /\ hist.fallbacks = 1
    /\ hist.created = 1

\* ------------------------------------------------ claims on the lifecycle
\* Workers constructed and not yet terminated.
WorkersAlive == hist.created - hist.terminated

\* A request was posted and neither handler of its worker has run.
RequestOutstanding ==
    /\ hist.mode = "dispatched"
    /\ worker.state = "alive"

\* C11: in every reachable state at most one anchor worker is alive, and a
\* request is posted (a worker is constructed) only when no worker is alive
\* and no request is outstanding.
C11_AtMostOneWorker ==
    /\ [](WorkersAlive \in {0, 1})
    /\ [][(hist'.sent > hist.sent \/ hist'.created > hist.created)
            => (WorkersAlive = 0 /\ ~RequestOutstanding)]_vars

C11_Witness ==
    /\ WorkersAlive = 1
    /\ RequestOutstanding
    /\ worker.phase = "idle"
    /\ hist.sent = 1

\* The error the specification's target search raises for a cloud of no
\* points; no code path of the source builds one.
InvalidInput == [error |-> "InvalidInput"]

TargetSearchCalled ==
    call.fn \in {"findNearestToTarget", "findNearestParticleTo"}

\* C13: a target search invoked on an empty point cloud signals InvalidInput
\* and does not return a result with index 0.
C13_EmptySignalsInvalidInput ==
    (TargetSearchCalled /\ NumPoints = 0)
        => /\ call.ret = InvalidInput
           /\ call.ret # [index |-> 0, x |-> Undefined, y |-> Undefined,
                          z |-> Undefined]
           /\ call.ret # [index |-> 0,
                          position |-> [x |-> Undefined, y |-> Undefined,
                                        z |-> Undefined]]

RaySearchCalled == call.fn = "findNearestParticleToRay"

\* The indices the recorded ray search call read coordinates at.
CallReads ==
    RayReads(positions, call.origin, call.dir, call.sampleStep,
             call.maxPerpDist)

\* C14: findNearestParticleToRay on an empty point cloud returns null and
\* reads the coordinates of no point.
C14_EmptyRayNull ==
    (RaySearchCalled /\ NumPoints = 0)
        => /\ call.ret = Null
           /\ CallReads = {}

C14_Witness ==
    /\ RaySearchCalled
    /\ NumPoints = 0
    /\ call.sampleStep = MaxStep
    /\ call.ret = Null

\* Brute force: the indices the coarse loop visits and, around the first of
\* them at the least perpendicular distance, the refinement window.
CoarseVisited(sampleStep) ==
    {i \in 0..(NumPoints - 1) : i % sampleStep = 0}

CoarseFirstBest(sampleStep, origin, dir) ==
    LET S == CoarseVisited(sampleStep)
        m == MinOf({PerpSq(i, origin, dir) : i \in S})
    IN  MinOf({i \in S : PerpSq(i, origin, dir) = m})

BothPhasesVisited(sampleStep, origin, dir) ==
    LET b == CoarseFirstBest(sampleStep, origin, dir)
        radius == Max(sampleStep * RayRefineFactor, RayRefineMin)
    IN  CoarseVisited(sampleStep)
            \cup {i \in 0..(NumPoints - 1) : Abs(i - b) <= radius}

\* C15: the maxPerpDist cutoff is a post-filter on the whole two-phase
\* search: the ray search returns null exactly when the least perpDist2 found
\* by the coarse scan and the refinement together exceeds maxPerpDist^2, and
\* otherwise returns the point at that least distance.
C15_CutoffIsPostFilter ==
    (RaySearchCalled /\ NumPoints > 0)
        => LET S == BothPhasesVisited(call.sampleStep, call.origin, call.dir)
               m == MinOf({PerpSq(i, call.origin, call.dir) : i \in S})
               cut == call.maxPerpDist * call.maxPerpDist
           IN  /\ (call.ret = Null) <=> (m > cut)
               /\ call.ret # Null => call.ret.perpDist2 = m

MainSearchCalled == call.fn = "findNearestParticleTo"

\* Points examined by phase 1 of the recorded search under the default stride.
PhaseOneCount == Cardinality(MainCoarseIndices(positions))

\* C16 as stated: with the default stride, phase 1 examines at most
\* StepDivisor (the source's 100000) points for every N >= 1.
C16_AtMostDivisor ==
    (MainSearchCalled /\ NumPoints >= 1) => PhaseOneCount <= StepDivisor

\* C16, amended: with the default stride max(1, floor(N / StepDivisor)),
\* phase 1 examines ceil(N / step) points, which is fewer than twice
\* StepDivisor for every N >= 1, and at most StepDivisor when N is a
\* multiple of StepDivisor or below it.
C16_BelowTwiceDivisor ==
    (MainSearchCalled /\ NumPoints >= 1)
        => LET step == Max(1, NumPoints \div StepDivisor)
           IN  /\ PhaseOneCount = (NumPoints + step - 1) \div step
               /\ PhaseOneCount < 2 * StepDivisor
               /\ (NumPoints <= StepDivisor \/ NumPoints % StepDivisor = 0)
                    => PhaseOneCount <= StepDivisor

C16_Witness ==
    /\ MainSearchCalled
    /\ NumPoints = 2 * StepDivisor - 1
    /\ PhaseOneCount = 2 * StepDivisor - 1

\* The anchor made of index j and the coordinates stored at j in buf.
StoredAnchor(buf, j) ==
    [index |-> j, x |-> Num(PointOf(buf, j).x), y |-> Num(PointOf(buf, j).y),
     z |-> Num(PointOf(buf, j).z)]

\* C17: every anchor result is self-consistent: the x, y, z of a reply's
\* anchor, and the anchorX/Y/Z strings a card holds, are the coordinates
\* stored at the anchor's index in the cloud that was searched.
C17_AnchorSelfConsistent ==
    /\ \A e \in ReplyEvents : \A k \in DOMAIN e.anchors :
          /\ e.anchors[k].index \in 0..(NumPointsOf(hist.snapshot) - 1)
          /\ e.anchors[k] = StoredAnchor(hist.snapshot, e.anchors[k].index)
    /\ \A i \in DOMAIN cards :
          cards[i] # << >>
              => \E j \in 0..(NumPointsOf(hist.snapshot) - 1) :
                    CardHolds(i, StoredAnchor(hist.snapshot, j))

C17_Witness ==
    /\ hist.applied = 1
    /\ \E i \in DOMAIN cards, j \in 1..(NumPointsOf(hist.snapshot) - 1) :
          /\ CardHolds(i, StoredAnchor(hist.snapshot, j))
          /\ PointOf(hist.snapshot, j) # BasePoint

\* A search was called in this step.
SearchCalled == call = NoCall /\ call' # NoCall

\* C18: the searches are pure: a call to findNearestParticleToRay,
\* findNearestParticleTo or the worker's findNearestToTarget leaves the point
\* cloud, the cards' anchors and the selection unchanged.
C18_SearchesArePure ==
    [][SearchCalled
         => /\ positions' = positions
            /\ cards' = cards
            /\ ui'.selectedHelper = ui.selectedHelper]_vars

C18_Witness ==
    /\ RaySearchCalled
    /\ call.ret # Null
    /\ call.ret.index > 0
    /\ ui.selectedHelper = Null
    /\ positions # << >>

\* ----------------------------------------------- claims on the interaction
\* C19: the interactive thread never waits for the worker: while a request
\* is outstanding the dispatch block has returned with both callbacks set,
\* the frame step is enabled, and the pointer-down pick has its listener in
\* place and the whole live cloud to search.
C19_NeverWaits ==
    RequestOutstanding
        => /\ worker.handlers
           /\ ENABLED Animate
           /\ InteractionReady
           /\ AttrCount(positions) = NumPointsOf(hist.snapshot)
           /\ AttrCount(positions) > 0

C19_Witness ==
    /\ RequestOutstanding
    /\ worker.phase = "idle"
    /\ ui.drawn > 0
    /\ ui.selectedHelper # Null

\* The anchor card i holds is not the one at its index in the live cloud.
CardIsStale(i) ==
    /\ AnchorKeys \subseteq DOMAIN cards[i]
    /\ \A j \in 0..(NumPoints - 1) : ~CardHolds(i, StoredAnchor(positions, j))

\* C20: there is no cancellation or generation check: when the cloud was
\* regenerated while the request was in flight, the late reply is still
\* handled by onmessage and applied, and the cards hold the indices and
\* positions computed from the cloud as it was at dispatch.
C20_StaleReplyApplied ==
    /\ (hist.staleInFlight /\ RequestOutstanding /\ mainInbox # << >>
            /\ Head(mainInbox).type = "message")
          => ENABLED OnMessage
    /\ (hist.staleInFlight /\ worker.state = "terminated"
            /\ worker.phase = "replied")
          => /\ hist.applied = 1
             /\ \A i \in DOMAIN cards :
                   CardHolds(i, SearchedAnchor(hist.snapshot, i, SnapshotStep))

C20_Witness ==
    /\ hist.staleInFlight
    /\ hist.applied = 1
    /\ positions # hist.snapshot
    /\ \E i \in DOMAIN cards : CardIsStale(i)

\* ------------------------------------------------ claims on the ray search
\* Least squared perpendicular distance to the line over all points.
MinPerpSq(origin, dir) ==
    MinOf({PerpSq(i, origin, dir) : i \in 0..(NumPoints - 1)})

\* The projection t of point i onto the ray.
RayT(i, origin, dir) == Dot(Minus(PointAt(i), origin), dir)

\* C21: with sampleStep = 1 and some point within the cutoff, the ray search
\* returns an index of least squared perpendicular distance to the line
\* through origin along dir over all points; points behind the origin
\* (t < 0) take part like any other.
C21_StepOneNearestToLine ==
    (/\ RaySearchCalled
     /\ call.sampleStep = 1
     /\ NumPoints > 0
     /\ MinPerpSq(call.origin, call.dir)
            <= call.maxPerpDist * call.maxPerpDist)
        => /\ call.ret # Null
           /\ call.ret.index \in 0..(NumPoints - 1)
           /\ PerpSq(call.ret.index, call.origin, call.dir)
                = MinPerpSq(call.origin, call.dir)

\* The pick is behind the origin and strictly nearer the line than every
\* point in front of it.
C21_Witness ==
    /\ RaySearchCalled
    /\ call.sampleStep = 1
    /\ call.ret # Null
    /\ RayT(call.ret.index, call.origin, call.dir) < 0
    /\ \E i \in 0..(NumPoints - 1) : RayT(i, call.origin, call.dir) >= 0
    /\ \A i \in 0..(NumPoints - 1) :
          RayT(i, call.origin, call.dir) >= 0
              => PerpSq(i, call.origin, call.dir)
                    > PerpSq(call.ret.index, call.origin, call.dir)

\* The refinement window around index b for the given sampleStep.
RayWindow(b, sampleStep) ==
    LET r == Max(sampleStep * RayRefineFactor, RayRefineMin)
    IN  {i \in Max(0, b - r)..Min(NumPoints - 1, b + r) : TRUE}

C26_ResultWithinCutoff ==
    (RaySearchCalled /\ call.ret # Null)
        => /\ call.ret.perpDist2 <= call.maxPerpDist * call.maxPerpDist
           /\ call.ret.index \in 0..(NumPoints - 1)
           /\ call.ret.perpDist2
                = PerpSq(call.ret.index, call.origin, call.dir)
           /\ call.ret.position
                = [x |-> Num(PointAt(call.ret.index).x),
                   y |-> Num(PointAt(call.ret.index).y),
                   z |-> Num(PointAt(call.ret.index).z)]

C26_Witness ==
    /\ RaySearchCalled
    /\ call.ret # Null
    /\ call.maxPerpDist > 0
    /\ call.ret.perpDist2 = call.maxPerpDist * call.maxPerpDist
    /\ \E i \in 0..(NumPoints - 1) :
          PerpSq(i, call.origin, call.dir)
              > call.maxPerpDist * call.maxPerpDist

\* The point indices the recorded call read, whichever search it was.
ReadsOfCall ==
    IF call.fn = "findNearestToTarget"
    THEN WorkerReads(positions, call.target, call.step)
    ELSE IF call.fn = "findNearestParticleTo"
    THEN MainReads(positions, call.target)
    ELSE CallReads

\* C23: on a non-empty cloud of N points and for every step >= 1, every
\* point index read by either phase of the target searches and of the ray
\* search lies in 0..N-1, and so does the returned index.
C23_ReadsInRange ==
    (call # NoCall /\ NumPoints > 0)
        => LET reads == ReadsOfCall
           IN  /\ reads # {}
               /\ \A i \in reads : 0 <= i /\ i < NumPoints
               /\ call.ret # Null => call.ret.index \in 0..(NumPoints - 1)

\* A refinement window clipped at both ends of the cloud.
C23_Witness ==
    /\ call.fn = "findNearestToTarget"
    /\ call.step > 1
    /\ NumPoints = MaxN
    /\ (NumPoints - 1) % call.step # 0
    /\ call.ret.index > 0
    /\ {0, NumPoints - 1} \subseteq ReadsOfCall


\* ------------------------------------------------- claims on worker teardown

\* The anchor operation has ended on a failure path: the fallback has run.
FailurePathEnded == pc = "idle" /\ hist.fallbacks > 0

\* C25: whenever a worker was constructed, it has been terminated by the time
\* the anchor assignment ends on a failure path: after an error event, and
\* when postMessage throws after construction and the catch branch runs the
\* fallback, no live worker remains.
C25_FailurePathsTerminate ==
    (FailurePathEnded /\ hist.created > 0)
        => /\ WorkersAlive = 0
           /\ worker.state = "terminated"


\* --------------------------------------------------- claims on the banners
\* Card i has its four anchor attributes.
CardSet(i) == AnchorKeys \subseteq DOMAIN cards[i]

\* The anchor the assignment alone stores on card i: the worker's search of
\* the cloud the dispatch block copied, with the stride it posted.
AssignedAnchor(i) ==
    findNearestToTarget(hist.snapshot, projectTarget[i],
                        StepOrOne(SnapshotStep))

\* The camera flights to an anchor that are under way.
BannerFlights == {k \in DOMAIN ui.tweens : ui.tweens[k].onComplete # Null}

\* C24: a banner can be clicked before its anchor is assigned: the click
\* computes the nearest particle at once and stores it on the card, so every
\* flight under way goes to the anchor its card holds; and whatever the
\* order of clicks and the worker's reply (or the fallback), an anchor a
\* card holds is the one the assignment alone stores on it.
C24_ClickAndReplyAgree ==
    /\ \A i \in 0..(NumCards - 1) :
          CardSet(i) => CardHolds(i, AssignedAnchor(i))
    /\ \A k \in BannerFlights :
          \E i \in 0..(NumCards - 1) :
              /\ CardSet(i)
              /\ cards[i]["anchorX"]
                    = NumberToString(ui.tweens[k].onComplete.x)
              /\ cards[i]["anchorY"]
                    = NumberToString(ui.tweens[k].onComplete.y)
              /\ cards[i]["anchorZ"]
                    = NumberToString(ui.tweens[k].onComplete.z)

\* A click stored an anchor while the request was outstanding, the reply was
\* applied afterwards, and the flight the click started is still under way.
C24_Witness ==
    /\ hist.clickStored
    /\ hist.applied = 1
    /\ BannerFlights # {}
    /\ \E i \in 0..(NumCards - 1) : cards[i]["particleIndex"] # <<"0">>

\* ----------------------------------------------------- claims on the scene
\* The selection helper meshes in the scene.
HelpersInScene == {o \in ui.scene : o.kind = "helper"}

HudHidden == ui.hud.hidden /\ ~ui.hud.show

\* C27: after a right-click or Escape there is no selection helper and the
\* HUD is hidden, and both stay so until the next selection (a left-click
\* that hits, or a banner click), whatever an earlier banner click had
\* scheduled.
C27_DismissalHolds ==
    ui.dismissed => (ui.selectedHelper = Null /\ HelpersInScene = {}
                        /\ HudHidden)

\* C28: the active beam leaves the scene without a newer beam taking its
\* place only once its own fade-in, hold and fade-out have passed since it
\* was added, and its opacity is the one of its own age.
C28_BeamLivesItsOwnTime ==
    [][/\ (ui.activeBeam # Null /\ ui'.activeBeam = Null)
            => ui.activeBeam.age + FrameMs >= fadeIn + hold + fadeOut
       /\ (ui'.activeBeam # Null
              /\ ui'.activeBeam.age < fadeIn + hold + fadeOut)
            => ui'.activeBeam.opacity = BeamOpacity(ui'.activeBeam.age)]_vars

\* C29: the orbit controls are disabled in every state in which a camera
\* tween is running.
C29_ControlsOffWhileTweening ==
    ui.tweens # << >> => ~ui.controlsEnabled

\* C30: at most one selection helper mesh is in the scene, and when
\* selectedHelper is not null it is that mesh.
C30_OneHelper ==
    /\ Cardinality(HelpersInScene) <= 1
    /\ ui.selectedHelper # Null
          => HelpersInScene = {[id |-> ui.selectedHelper.id,
                                kind |-> "helper"]}
    /\ ui.selectedHelper = Null => HelpersInScene = {}

\* A helper is in the scene while a banner flight that will put one
\* elsewhere is under way.
C30_Witness ==
    /\ ui.selectedHelper # Null
    /\ \E k \in BannerFlights :
          ui.tweens[k].onComplete # ui.selectedHelper.position
    /\ ui.activeBeam # Null
    /\ ~ui.dismissed
=============================================================================
